---- MODULE Spec2Model ----
(***************************************************************************)
(* Build-on-Push CI (platform_ci): branch classification (distgit.py),     *)
(* the commit dispatcher (ci_types.py, jenkins_jobs.py, jenkins.py) and    *)
(* the Brew build attempts of a worker job (brew.py).  Spec is one call of  *)
(* the dispatcher, SpecBranch one call of the classifier, SpecBrew and      *)
(* SpecAttempt the build attempts, SpecRace two dispatcher calls side by    *)
(* side.                                                                    *)
(*                                                                          *)
(* Strings are sequences of one-character strings, so that the regular      *)
(* expressions of distgit.py, str.replace, str.join and the % formatting    *)
(* are computed character by character.                                     *)
(***************************************************************************)
EXTENDS Integers, Sequences, FiniteSets, TLC

VARIABLES
    entry,        \* the method the driver (or a test) calls
    name,         \* DistGitBranch.name of the commit's branch
    parts,        \* how the input name was put together (ghost, never read by the code)
    config_file,  \* the ci.yaml of the branch (its auto-build targets), or NoConfigFile (None)
    pc,           \* position of the call
    targets,      \* the list handed to _run_on_targets / built_targets
    jobs,         \* names of the jobs that exist on the Jenkins instance
    calls,        \* Jenkins CLI calls issued so far, in order
    description,  \* text handed to set_current_build_description, or NoDescription
    dispatches,   \* the consider_build calls that run side by side on one Jenkins instance
    ret,          \* value returned by the call, or NoValue
    raised,       \* exception that left the call, or NoError
    bba_targets,  \* BrewBuildAttempts.targets
    builds,       \* BrewBuildAttempts.builds: target -> BrewBuildAttempt (its index in attempts)
    attempts,     \* the BrewBuildAttempt objects created so far, in order of creation
    procs,        \* the rhpkg processes started so far (subprocess.Popen), in order
    wait_i,       \* BrewBuildAttempts.wait: index of the loop's target, 0 outside the loop
    self,         \* receiver of the Brew call in entry: TheSet, or the index of an attempt
    done          \* (method, receiver) of the execute() and wait() calls that have returned (ghost)

\* the state of the Brew build attempts
brew == <<bba_targets, builds, attempts, procs, wait_i, self, done>>

\* the state of the dispatcher that the Brew build attempts never touch
dispatch == <<name, parts, config_file, targets, jobs, calls, description, dispatches>>

vars ==
    <<entry, name, parts, config_file, pc, targets, jobs, calls, description, dispatches,
      ret, raised, brew>>

-----------------------------------------------------------------------------
(* Characters and literals *)

Digits == {"0", "1", "2", "3", "4", "5", "6", "7", "8", "9"}

Letters ==
    {"a", "b", "c", "d", "e", "f", "g", "h", "i", "j", "k", "l", "m",
     "n", "o", "p", "q", "r", "s", "t", "u", "v", "w", "x", "y", "z",
     "A", "B", "C", "D", "E", "F", "G", "H", "I", "J", "K", "L", "M",
     "N", "O", "P", "Q", "R", "S", "T", "U", "V", "W", "X", "Y", "Z"}

\* \w of Python's re (ASCII)
WordChars == Letters \cup Digits \cup {"_"}

\* [\w_-]
WordDashChars == WordChars \cup {"-"}

Dash == <<"-">>
Dot == <<".">>
Space == <<" ">>
PRIVATE_ == <<"p", "r", "i", "v", "a", "t", "e", "-">>
EXTRAS_ == <<"e", "x", "t", "r", "a", "s", "-">>
RHSCL_ == <<"r", "h", "s", "c", "l", "-">>
DASH_RH_DASH == <<"-", "r", "h", "-">>
RHEL_ == <<"r", "h", "e", "l", "-">>
STAGING == <<"s", "t", "a", "g", "i", "n", "g">>
CANDIDATE == <<"c", "a", "n", "d", "i", "d", "a", "t", "e">>
DASH_STAGING == Dash \o STAGING
DASH_CANDIDATE == Dash \o CANDIDATE

-----------------------------------------------------------------------------
(* Sequence helpers *)

\* the positions a..b in increasing order
Positions(a, b) == [k \in 1..(IF b >= a THEN b - a + 1 ELSE 0) |-> a + k - 1]

RECURSIVE Flatten(_)
Flatten(ss) == IF ss = <<>> THEN <<>> ELSE Head(ss) \o Flatten(Tail(ss))

\* the literal lit stands in s at position i
LitAt(s, i, lit) ==
    /\ i >= 1
    /\ i + Len(lit) - 1 <= Len(s)
    /\ SubSeq(s, i, i + Len(lit) - 1) = lit

StartsWith(s, lit) == LitAt(s, 1, lit)

Contains(seq, x) == \E k \in 1..Len(seq) : seq[k] = x

Count(seq, x) == Cardinality({k \in 1..Len(seq) : seq[k] = x})

\* str.replace(old, new): every non-overlapping occurrence, left to right
RECURSIVE Replace(_, _, _)
Replace(s, old, new) ==
    IF s = <<>> THEN <<>>
    ELSE IF LitAt(s, 1, old)
         THEN new \o Replace(SubSeq(s, Len(old) + 1, Len(s)), old, new)
         ELSE <<Head(s)>> \o Replace(Tail(s), old, new)

\* sep.join(list)
RECURSIVE Join(_, _)
Join(list, sep) ==
    IF list = <<>> THEN <<>>
    ELSE IF Len(list) = 1 THEN Head(list)
    ELSE Head(list) \o sep \o Join(Tail(list), sep)

-----------------------------------------------------------------------------
(* distgit.py: the regular expressions.  Each pattern is computed as the    *)
(* backtracking matcher computes it: the list of positions where a match of *)
(* the pattern starting at i can end, in the order the matcher tries them.  *)
(* The match the matcher reports is the first of the list.                  *)

NoMatch == [matched |-> FALSE]

\* `$`: the end of the string, or just before a newline that ends it
AtEnd(s, e) == e = Len(s) + 1 \/ (e = Len(s) /\ s[e] = "\n")

\* the positions q > p - 1 + least such that s[p..q-1] lies in class, shortest first
\* (a lazy repetition  [class]*?  with least = 0,  [class]+?  with least = 1)
LazyEnds(s, p, class, least) ==
    SelectSeq(Positions(p + least, Len(s) + 1),
              LAMBDA q : \A r \in p..(q - 1) : s[r] \in class)

\* rhel-\d(\.\d)?
RhelEnds(s, i) ==
    IF LitAt(s, i, RHEL_) /\ i + 5 <= Len(s) /\ s[i + 5] \in Digits
    THEN (IF i + 7 <= Len(s) /\ s[i + 6] = "." /\ s[i + 7] \in Digits
          THEN <<i + 8>> ELSE <<>>) \o <<i + 6>>
    ELSE <<>>

\* rhscl-\d\.\d-rh-\w+?-
RhsclEnds(s, i) ==
    IF /\ LitAt(s, i, RHSCL_)
       /\ i + 8 <= Len(s)
       /\ s[i + 6] \in Digits /\ s[i + 7] = "." /\ s[i + 8] \in Digits
       /\ LitAt(s, i + 9, DASH_RH_DASH)
    THEN LET w == SelectSeq(LazyEnds(s, i + 13, WordChars, 1), LAMBDA q : LitAt(s, q, Dash))
         IN  [k \in 1..Len(w) |-> w[k] + 1]
    ELSE <<>>

\* ((extras-)|(rhscl-\d\.\d-rh-\w+?-))?
FamilyEnds(s, i) ==
    (IF LitAt(s, i, EXTRAS_) THEN <<i + Len(EXTRAS_)>> ELSE <<>>)
    \o RhsclEnds(s, i)
    \o <<i>>

\* the group st_branch of STANDARD_BRANCH_REGEXP_PATTERN, without the `$`
StandardBaseEnds(s, i) ==
    LET f == FamilyEnds(s, i)
    IN  Flatten([k \in 1..Len(f) |-> RhelEnds(s, f[k])])

\* STAGING_BRANCH_REGEXP_PATTERN: the group st_branch
STAGING_BRANCH_REGEXP_PATTERN(s, i) ==
    LET b == SelectSeq(StandardBaseEnds(s, i), LAMBDA e : LitAt(s, e, DASH_STAGING))
    IN  [k \in 1..Len(b) |-> b[k] + Len(DASH_STAGING)]

\* mutant of STANDARD_BRANCH_REGEXP_PATTERN: the `$` left out
STANDARD_BRANCH_REGEXP_PATTERN_Unanchored(s, i) == StandardBaseEnds(s, i)

\* STANDARD_BRANCH_REGEXP_PATTERN: the group st_branch followed by `$`
STANDARD_BRANCH_REGEXP_PATTERN(s, i) ==
    SelectSeq(StandardBaseEnds(s, i), LAMBDA e : AtEnd(s, e))

\* STANDARD_BRANCH_REGEXP.match(s): the first match at the start of s
STANDARD_BRANCH_REGEXP(s) ==
    LET m == STANDARD_BRANCH_REGEXP_PATTERN(s, 1)
    IN  IF m = <<>> THEN NoMatch
        ELSE [matched |-> TRUE, prefix |-> FALSE, st_branch |-> SubSeq(s, 1, m[1] - 1)]

\* STAGING_BRANCH_REGEXP.match(s): the optional group prefix is tried first
\* (private- and a lazy run of [\w_-]); with it the pattern may be followed by
\* anything, without it the pattern must end the string.
STAGING_BRANCH_REGEXP(s) ==
    LET starts == IF LitAt(s, 1, PRIVATE_)
                  THEN LazyEnds(s, Len(PRIVATE_) + 1, WordDashChars, 0)
                  ELSE <<>>
        with == Flatten([k \in 1..Len(starts) |->
                    LET e == STAGING_BRANCH_REGEXP_PATTERN(s, starts[k])
                    IN  [j \in 1..Len(e) |-> <<starts[k], e[j]>>]])
        bare == SelectSeq(STAGING_BRANCH_REGEXP_PATTERN(s, 1), LAMBDA e : AtEnd(s, e))
    IN  IF with # <<>>
        THEN [matched |-> TRUE, prefix |-> TRUE,
              st_branch |-> SubSeq(s, with[1][1], with[1][2] - 1)]
        ELSE IF bare # <<>>
        THEN [matched |-> TRUE, prefix |-> FALSE, st_branch |-> SubSeq(s, 1, bare[1] - 1)]
        ELSE NoMatch

-----------------------------------------------------------------------------
(* distgit.py: DistGitBranch *)

NoValue == [kind |-> "none"]
NoError == "none"
Returned(v) == [kind |-> "value", value |-> v]
Raised(e) == [kind |-> "raised", error |-> e]

is_staging(n) == STAGING_BRANCH_REGEXP(n).matched

is_standard(n) == STANDARD_BRANCH_REGEXP(n).matched

\* mutants of staging_target: -candidate appended to a staging base too; the
\* dash left out on a standard branch; a default target instead of the exception
staging_target_Appended(n) ==
    IF is_staging(n)
    THEN Returned(STAGING_BRANCH_REGEXP(n).st_branch \o DASH_CANDIDATE)
    ELSE IF is_standard(n)
    THEN Returned(STANDARD_BRANCH_REGEXP(n).st_branch \o DASH_CANDIDATE)
    ELSE Raised("DistGitBranchException")

staging_target_NoDash(n) ==
    IF is_staging(n)
    THEN Returned(Replace(STAGING_BRANCH_REGEXP(n).st_branch, STAGING, CANDIDATE))
    ELSE IF is_standard(n)
    THEN Returned(STANDARD_BRANCH_REGEXP(n).st_branch \o CANDIDATE)
    ELSE Raised("DistGitBranchException")

staging_target_Default(n) ==
    IF is_staging(n)
    THEN Returned(Replace(STAGING_BRANCH_REGEXP(n).st_branch, STAGING, CANDIDATE))
    ELSE IF is_standard(n)
    THEN Returned(STANDARD_BRANCH_REGEXP(n).st_branch \o DASH_CANDIDATE)
    ELSE Returned(n \o DASH_CANDIDATE)

staging_target(n) ==
    IF is_staging(n)
    THEN Returned(Replace(STAGING_BRANCH_REGEXP(n).st_branch, STAGING, CANDIDATE))
    ELSE IF is_standard(n)
    THEN Returned(STANDARD_BRANCH_REGEXP(n).st_branch \o DASH_CANDIDATE)
    ELSE Raised("DistGitBranchException")

type(n) ==
    IF is_staging(n)
    THEN IF StartsWith(n, PRIVATE_) THEN "private staging" ELSE "staging"
    ELSE IF is_standard(n) THEN "standard"
    ELSE "private"

-----------------------------------------------------------------------------
(* jenkins_jobs.py *)

Component == <<"b", "a", "s", "h">>

CI_ == <<"c", "i", "-">>
DASH_COMMIT_DASH == <<"-", "c", "o", "m", "m", "i", "t", "-">>
DASH_DISPATCHER_COMMIT ==
    <<"-", "d", "i", "s", "p", "a", "t", "c", "h", "e", "r", "-", "c", "o", "m", "m", "i", "t">>

\* JobBuildOnCommit.create_job_name: "ci-%s-commit-%s" % (component, branch)
create_job_name(component, branch) == CI_ \o component \o DASH_COMMIT_DASH \o branch

\* JobCommitDispatcher.create_job_name: "ci-{0}-dispatcher-commit".format(component)
create_dispatcher_job_name(component) == CI_ \o component \o DASH_DISPATCHER_COMMIT

\* JobCommitDispatcher.create_description: the lines that depend on the dispatch
\* (the commit hash and commit description lines are copied from the commit)
create_description(branch, built_targets, component) ==
    [branch |-> branch,
     type |-> type(branch),
     line |-> IF built_targets = <<>> THEN "No brew build was issued" ELSE "Triggered job",
     job |-> IF built_targets = <<>> THEN <<>> ELSE create_job_name(component, branch)]

-----------------------------------------------------------------------------
(* ci_types.py: CommitCIConfig and CommitCI, jenkins.py: the CLI calls *)

NoConfigFile == [present |-> FALSE]
ConfigFile(t) == [present |-> TRUE, targets |-> t]
NoDescription == [line |-> "none"]
NoParts == [private |-> <<>>, x |-> <<>>, base |-> <<>>, suffix |-> <<>>]

\* no consider_build calls run side by side
NoDispatches == <<>>

\* None; the values None, True and False of Python are written "None", "True"
\* and "False"
None == "None"

\* a call of a method of the Jenkins object, and what came of it: the value
\* returned, or the exception raised
Call(op, job, arg, result) == [op |-> op, job |-> job, arg |-> arg, result |-> result]

\* the worker job of the dispatch (JobBuildOnCommit(self.component, branch, ...).name)
worker == create_job_name(Component, name)

\* the dispatcher job of the component (JobCommitDispatcher(component, ...).name)
dispatcher == create_dispatcher_job_name(Component)

\* the job _enable_job is called with: the dispatcher job by CommitCI.enable,
\* the worker job by _run_on_targets
job == IF entry = "enable" THEN dispatcher ELSE worker

\* mutants of StagingTargets: the staging target dropped when a config file is
\* present; put in front of the config's targets; appended without the test
StagingTargets_ConfigOnly(cfg, st) == IF cfg.present THEN cfg.targets ELSE <<st>>

StagingTargets_InFront(cfg, st) ==
    LET t == IF cfg.present THEN cfg.targets ELSE <<>>
    IN  IF Contains(t, st) THEN t ELSE <<st>> \o t

StagingTargets_AlwaysAppended(cfg, st) ==
    Append(IF cfg.present THEN cfg.targets ELSE <<>>, st)

\* the list _run_on_staging builds before it calls _run_on_targets
\* (lines 182-195; st is the staging target already read)
StagingTargets(cfg, st) ==
    LET t == IF cfg.present THEN cfg.targets ELSE <<>>
    IN  IF Contains(t, st) THEN t ELSE Append(t, st)

\* mutant of ConsiderBuild: a standard branch is built like a staging branch
ConsiderBuild_BuildsStandard ==
    /\ pc = "consider_build"
    /\ IF is_staging(name) \/ is_standard(name)
       THEN pc' = "_run_on_staging" /\ UNCHANGED targets
       ELSE IF config_file.present
       THEN pc' = "_run_by_config" /\ UNCHANGED targets
       ELSE pc' = "describe" /\ targets' = <<>>
    /\ UNCHANGED <<brew, dispatches, entry, name, parts, config_file, jobs, calls, description, ret, raised>>

\* consider_build, lines 238-249: which way the branch is handled
ConsiderBuild ==
    /\ pc = "consider_build"
    /\ IF is_staging(name)
       THEN pc' = "_run_on_staging" /\ UNCHANGED targets
       ELSE IF config_file.present
       THEN pc' = "_run_by_config" /\ UNCHANGED targets
       ELSE pc' = "describe" /\ targets' = <<>>
    /\ UNCHANGED <<brew, dispatches, entry, name, parts, config_file, jobs, calls, description, ret, raised>>

\* _run_on_staging, lines 182-195: the targets, up to the call of _run_on_targets
RunOnStaging ==
    /\ pc = "_run_on_staging"
    /\ LET st == staging_target(name)
       IN  IF st.kind = "raised"
           THEN /\ raised' = st.error
                /\ pc' = "raised"
                /\ UNCHANGED targets
           ELSE /\ targets' = StagingTargets(config_file, st.value)
                /\ pc' = "job_exists"
                /\ UNCHANGED raised
    /\ UNCHANGED <<brew, dispatches, entry, name, parts, config_file, jobs, calls, description, ret>>

\* mutant of RunByConfig: the candidate target of a standard branch is added
RunByConfig_AddsCandidate ==
    /\ pc = "_run_by_config"
    /\ targets' = IF is_standard(name)
                  THEN StagingTargets(config_file, staging_target(name).value)
                  ELSE config_file.targets
    /\ pc' = "job_exists"
    /\ UNCHANGED <<brew, dispatches, entry, name, parts, config_file, jobs, calls, description, ret, raised>>

\* _run_by_config, lines 217-219
RunByConfig ==
    /\ pc = "_run_by_config"
    /\ targets' = config_file.targets
    /\ pc' = "job_exists"
    /\ UNCHANGED <<brew, dispatches, entry, name, parts, config_file, jobs, calls, description, ret, raised>>

\* what follows _enable_job: CommitCI.enable returns, _run_on_targets goes on
\* to trigger the worker job
Enabled == IF entry = "enable" THEN "returned" ELSE "trigger_job"

\* mutant of JobExists: a job that exists is created, one that does not is updated
JobExists_Inverted ==
    /\ pc = "job_exists"
    /\ \E ok \in BOOLEAN :
        LET found == ok /\ job \in jobs
        IN  /\ calls' = Append(calls, Call("job_exists", job, <<>>,
                                           IF found THEN "True" ELSE "False"))
            /\ pc' = IF found THEN "create_job" ELSE "update_job"
    /\ UNCHANGED <<brew, dispatches, entry, name, parts, config_file, targets, jobs, description, ret, raised>>

\* _enable_job, line 66: jenkins.job_exists(job), the job's name is a line of
\* the output of list-jobs; when list-jobs itself fails (not ok) the output is
\* empty and the answer is False
JobExists ==
    /\ pc = "job_exists"
    /\ \E ok \in BOOLEAN :
        LET found == ok /\ job \in jobs
        IN  /\ calls' = Append(calls, Call("job_exists", job, <<>>,
                                           IF found THEN "True" ELSE "False"))
            /\ pc' = IF found THEN "update_job" ELSE "create_job"
    /\ UNCHANGED <<brew, dispatches, entry, name, parts, config_file, targets, jobs, description, ret, raised>>

\* mutant of Cli: a call that fails is passed over and the dispatch goes on
Cli_Swallowed(op, arg, ok, next) ==
    /\ calls' = Append(calls, Call(op, job, arg,
                                   IF ok THEN None ELSE "PlatformJenkinsException"))
    /\ pc' = next
    /\ UNCHANGED raised

\* the CLI call cli ends with status 0 (ok) or not: when it fails the method
\* raises PlatformJenkinsException and the dispatch is left
Cli(op, arg, ok, next) ==
    /\ calls' = Append(calls, Call(op, job, arg,
                                   IF ok THEN None ELSE "PlatformJenkinsException"))
    /\ IF ok
       THEN pc' = next /\ UNCHANGED raised
       ELSE pc' = "raised" /\ raised' = "PlatformJenkinsException"

\* _enable_job, line 70: jenkins.create_job(job); fails when the job exists already
\* or on a communication error
CreateJob ==
    /\ pc = "create_job"
    /\ \E ok \in BOOLEAN :
        /\ ok => job \notin jobs
        /\ Cli("create_job", <<>>, ok, Enabled)
        /\ jobs' = IF ok THEN jobs \cup {job} ELSE jobs
    /\ UNCHANGED <<brew, dispatches, entry, name, parts, config_file, targets, description, ret>>

\* mutant of UpdateJob: the job is updated and not enabled
UpdateJob_NoEnable ==
    /\ pc = "update_job"
    /\ \E ok \in BOOLEAN :
        /\ ok => job \in jobs
        /\ Cli("update_job", <<>>, ok, Enabled)
    /\ UNCHANGED <<brew, dispatches, entry, name, parts, config_file, targets, jobs, description, ret>>

\* _enable_job, line 67: jenkins.update_job(job); fails when the job does not exist
\* or on a communication error
UpdateJob ==
    /\ pc = "update_job"
    /\ \E ok \in BOOLEAN :
        /\ ok => job \in jobs
        /\ Cli("update_job", <<>>, ok, "enable_job")
    /\ UNCHANGED <<brew, dispatches, entry, name, parts, config_file, targets, jobs, description, ret>>

\* _enable_job, line 68: jenkins.enable_job(job)
EnableJob ==
    /\ pc = "enable_job"
    /\ \E ok \in BOOLEAN :
        /\ ok => job \in jobs
        /\ Cli("enable_job", <<>>, ok, Enabled)
    /\ UNCHANGED <<brew, dispatches, entry, name, parts, config_file, targets, jobs, description, ret>>

\* mutant of Parameters: the targets joined by commas
Parameters_Commas(t) == [BREW_TARGETS |-> Join(t, <<",">>)]

\* the parameters _run_on_targets hands to trigger_job (line 156)
Parameters(t) == [BREW_TARGETS |-> Join(t, Space)]

\* _run_on_targets, line 156: jenkins.trigger_job(worker, parameters=...); then
\* _run_on_staging / _run_by_config return the targets
TriggerJob ==
    /\ pc = "trigger_job"
    /\ \E ok \in BOOLEAN :
        /\ ok => worker \in jobs
        /\ Cli("trigger_job", Parameters(targets), ok,
               IF entry = "consider_build" THEN "describe" ELSE "returned")
        /\ ret' = IF ok /\ entry # "consider_build" THEN Returned(targets) ELSE ret
    /\ UNCHANGED <<brew, dispatches, entry, name, parts, config_file, targets, jobs, description>>

\* mutant of Describe: the description is set only when a job was triggered
Describe_OnlyWhenTriggered ==
    /\ pc = "describe"
    /\ IF targets = <<>>
       THEN /\ pc' = "returned"
            /\ UNCHANGED <<description, calls, raised>>
       ELSE /\ description' = create_description(name, targets, Component)
            /\ \E env \in BOOLEAN, ok \in BOOLEAN :
                IF env
                THEN /\ calls' = Append(calls, Call("set_build_description", <<>>, description',
                                                    IF ok THEN None
                                                    ELSE "PlatformJenkinsException"))
                     /\ IF ok
                        THEN pc' = "returned" /\ UNCHANGED raised
                        ELSE pc' = "raised" /\ raised' = "PlatformJenkinsException"
                ELSE /\ ok
                     /\ pc' = "returned"
                     /\ UNCHANGED <<calls, raised>>
    /\ UNCHANGED <<brew, dispatches, entry, name, parts, config_file, targets, jobs, ret>>

\* consider_build, lines 251-252: the description is built and handed to
\* set_current_build_description, which calls set_build_description only when
\* JOB_NAME and BUILD_NUMBER are set (env) and raises when that CLI call fails
Describe ==
    /\ pc = "describe"
    /\ description' = create_description(name, targets, Component)
    /\ \E env \in BOOLEAN, ok \in BOOLEAN :
        IF env
        THEN /\ calls' = Append(calls, Call("set_build_description", <<>>, description',
                                            IF ok THEN None ELSE "PlatformJenkinsException"))
             /\ IF ok
                THEN pc' = "returned" /\ UNCHANGED raised
                ELSE pc' = "raised" /\ raised' = "PlatformJenkinsException"
        ELSE /\ ok
             /\ pc' = "returned"
             /\ UNCHANGED <<calls, raised>>
    /\ UNCHANGED <<brew, dispatches, entry, name, parts, config_file, targets, jobs, ret>>

-----------------------------------------------------------------------------
(* The dispatcher: one call of consider_build, or of _run_on_staging alone  *)

\* the receiver BrewBuildAttempts, as against the index of a BrewBuildAttempt
TheSet == 0

\* BrewBuildAttempts.builds = {}
NoBuilds == [t \in {} |-> 0]

\* no Brew build attempt is at work: the dispatcher issues none itself
NoBrew ==
    /\ bba_targets = <<>>
    /\ builds = NoBuilds
    /\ attempts = <<>>
    /\ procs = <<>>
    /\ wait_i = 0
    /\ self = TheSet
    /\ done = {}

MaxConfigTargets == 2

N71 == <<"7", ".", "1">>
N72 == <<"7", ".", "2">>
N73 == <<"7", ".", "3">>
JOHNFOO_ == <<"j", "o", "h", "n", "f", "o", "o", "-">>
DASH_BZ == <<"-", "B", "Z", "1", "2", "3", "4", "5", "6">>
JOHN_FEATURE_BRANCH ==
    <<"j", "o", "h", "n", "-", "f", "e", "a", "t", "u", "r", "e", "-",
      "b", "r", "a", "n", "c", "h">>
X86_64_EXTRA == <<"x", "8", "6", "_", "6", "4", "-", "e", "x", "t", "r", "a">>

\* the branches of the scenarios and the tests
DispatchBranches ==
    { RHEL_ \o N71 \o DASH_STAGING,
      PRIVATE_ \o JOHNFOO_ \o RHEL_ \o N73 \o DASH_STAGING \o DASH_BZ,
      EXTRAS_ \o RHEL_ \o N72,
      RHEL_ \o N72,
      RHEL_ \o <<"6">> \o DASH_STAGING,
      JOHN_FEATURE_BRANCH }

ConfigTargets ==
    { RHEL_ \o N71 \o DASH_CANDIDATE, RHEL_ \o N73 \o DASH_CANDIDATE, X86_64_EXTRA }

SeqsUpTo(S, n) == UNION {[1..k -> S] : k \in 0..n}

ConfigFiles == {NoConfigFile} \cup {ConfigFile(t) : t \in SeqsUpTo(ConfigTargets, MaxConfigTargets)}

\* CommitCI.enable (lines 130-131) goes straight to _enable_job, with no branch
Init ==
    /\ entry \in {"consider_build", "_run_on_staging", "enable"}
    /\ name \in (IF entry = "enable" THEN {<<>>} ELSE DispatchBranches)
    /\ parts = NoParts
    /\ config_file \in (IF entry = "enable" THEN {NoConfigFile} ELSE ConfigFiles)
    /\ pc = IF entry = "enable" THEN "job_exists" ELSE entry
    /\ targets = <<>>
    /\ jobs \in {{}, {job}}
    /\ calls = <<>>
    /\ description = NoDescription
    /\ dispatches = NoDispatches
    /\ ret = NoValue
    /\ raised = NoError
    /\ NoBrew

Next ==
    \/ ConsiderBuild
    \/ RunOnStaging
    \/ RunByConfig
    \/ JobExists
    \/ CreateJob
    \/ UpdateJob
    \/ EnableJob
    \/ TriggerJob
    \/ Describe

Spec == Init /\ [][Next]_vars
-----------------------------------------------------------------------------
(* The classifier: one call of a DistGitBranch method, or of _run_on_staging *)
(* with no config file, on a name put together from parts:                   *)
(*     private  x  base  suffix                                              *)

MaxPrefixWords == 1

BZ1 == <<"b", "z", "1">>

\* what a private prefix may hold between private- and the base, each word
\* followed by a dash
PrefixWords ==
    { <<"x">>, <<"e", "x", "t", "r", "a", "s">>, <<"a", ".", "b">>, STAGING,
      RHEL_ \o <<"7">> \o DASH_STAGING }

RHSCL_RH_ == RHSCL_ \o <<"2", ".", "1">> \o DASH_RH_DASH
RHSCL_RUBY_ == RHSCL_RH_ \o <<"r", "u", "b", "y", "2", "2">> \o Dash
RHSCL_STAGING_ == RHSCL_RH_ \o STAGING \o Dash

Families == { <<>>, EXTRAS_, RHSCL_RUBY_, RHSCL_STAGING_ }

Versions == { RHEL_ \o <<"6">>, RHEL_ \o N73 }

StandardBases == {f \o v : f \in Families, v \in Versions}

StagingBases == {b \o DASH_STAGING : b \in StandardBases}

Suffixes == { <<>>, Dash \o BZ1, Dot \o <<"x">>, <<"\n">> }

PrefixContents ==
    {Flatten([k \in 1..Len(w) |-> w[k] \o Dash]) : w \in SeqsUpTo(PrefixWords, MaxPrefixWords)}

BranchParts ==
    [private : {<<>>, PRIVATE_},
     x : PrefixContents,
     base : {<<>>} \cup StandardBases \cup StagingBases,
     suffix : Suffixes]

Compose(p) == p.private \o p.x \o p.base \o p.suffix

InitBranch ==
    /\ entry \in {"is_staging", "is_standard", "type", "staging_target", "_run_on_staging"}
    /\ parts \in BranchParts
    /\ name = Compose(parts)
    /\ config_file = NoConfigFile
    /\ pc = entry
    /\ targets = <<>>
    /\ jobs \in {{}, {create_job_name(Component, name)}}
    /\ calls = <<>>
    /\ description = NoDescription
    /\ dispatches = NoDispatches
    /\ ret = NoValue
    /\ raised = NoError
    /\ NoBrew

\* DistGitBranch(name).is_staging()
IsStaging ==
    /\ pc = "is_staging"
    /\ ret' = Returned(is_staging(name))
    /\ pc' = "returned"
    /\ UNCHANGED <<brew, dispatches, entry, name, parts, config_file, targets, jobs, calls, description, raised>>

\* DistGitBranch(name).is_standard()
IsStandard ==
    /\ pc = "is_standard"
    /\ ret' = Returned(is_standard(name))
    /\ pc' = "returned"
    /\ UNCHANGED <<brew, dispatches, entry, name, parts, config_file, targets, jobs, calls, description, raised>>

\* DistGitBranch(name).type
Type ==
    /\ pc = "type"
    /\ ret' = Returned(type(name))
    /\ pc' = "returned"
    /\ UNCHANGED <<brew, dispatches, entry, name, parts, config_file, targets, jobs, calls, description, raised>>

\* DistGitBranch(name).staging_target
StagingTarget ==
    /\ pc = "staging_target"
    /\ LET st == staging_target(name)
       IN  IF st.kind = "raised"
           THEN raised' = st.error /\ pc' = "raised" /\ UNCHANGED ret
           ELSE ret' = st /\ pc' = "returned" /\ UNCHANGED raised
    /\ UNCHANGED <<brew, dispatches, entry, name, parts, config_file, targets, jobs, calls, description>>

NextBranch ==
    \/ IsStaging
    \/ IsStandard
    \/ Type
    \/ StagingTarget
    \/ RunOnStaging
    \/ JobExists
    \/ CreateJob
    \/ UpdateJob
    \/ EnableJob
    \/ TriggerJob

SpecBranch == InitBranch /\ [][NextBranch]_vars
-----------------------------------------------------------------------------
(* brew.py: BrewBuildAttempt and BrewBuildAttempts.  The driver (the worker *)
(* job, or a test) calls their methods one after another; the rhpkg         *)
(* processes that execute() starts run and exit on their own.               *)

MaxTargets == 2
MaxProcs == 3

\* a call returns a count
ReturnedCount(n) == [kind |-> "count", count |-> n]

\* the targets of brew_test.py
BrewTargets == {"target-1-test", "target-2-test"}

\* exit statuses of rhpkg: success, failure, killed by a signal
ExitStatuses == {0, 1, -9}

\* subprocess.Popen(argv): a process that runs
Popen(argv) == [argv |-> argv, state |-> "running", returncode |-> 0]

\* the command of BrewBuildAttempt.execute
Command(target) == <<"rhpkg", "build", "--scratch", "--skip-nvr-check", "--target", target>>

\* mutant of BrewBuildAttempt: _success starts as False
BrewBuildAttempt_Failed(target) ==
    [target |-> target, execution |-> 0, logfile |-> None, success |-> "False"]

\* BrewBuildAttempt.__init__: _execution (0 for None, or the index of the
\* process in procs), _logfile and _success are None
BrewBuildAttempt(target) ==
    [target |-> target, execution |-> 0, logfile |-> None, success |-> None]

\* BrewBuildAttempt.execute, the attempt after it: the log file is open and
\* _execution is the process p that Popen started
execute(a, p) == [a EXCEPT !.logfile = "open", !.execution = p]

\* mutant of wait: only a positive exit status makes the attempt fail
wait_SignalPasses(a, proc) ==
    [a EXCEPT !.success = IF proc.returncode <= 0 THEN "True" ELSE "False",
              !.logfile = "closed"]

\* BrewBuildAttempt.wait, the attempt after its process proc has exited
wait(a, proc) ==
    [a EXCEPT !.success = IF proc.returncode = 0 THEN "True" ELSE "False",
              !.logfile = "closed"]

\* BrewBuildAttempt.passed
passed(a) ==
    IF a.success = None
    THEN Raised("BrewBuildAttemptException")
    ELSE Returned(a.success)

\* BrewBuildAttempt.short_result
short_result(a) ==
    LET p == passed(a)
    IN  IF p.kind = "raised" THEN p
        ELSE Returned(IF p.value = "True" THEN "PASS" ELSE "FAIL")

\* builds[target] = attempt
Put(b, target, a) == [t \in DOMAIN b \cup {target} |-> IF t = target THEN a ELSE b[t]]

\* the loop of BrewBuildAttempts.execute from its k-th target on; st holds
\* builds, attempts and procs
RECURSIVE ExecuteFrom(_, _, _)
ExecuteFrom(tg, k, st) ==
    IF k > Len(tg) THEN st
    ELSE ExecuteFrom(tg, k + 1,
             [builds |-> Put(st.builds, tg[k], Len(st.attempts) + 1),
              attempts |-> Append(st.attempts,
                                  execute(BrewBuildAttempt(tg[k]), Len(st.procs) + 1)),
              procs |-> Append(st.procs, Popen(Command(tg[k])))])

\* the loop of BrewBuildAttempts.all_successful from its k-th target on
RECURSIVE AllSuccessfulFrom(_, _, _, _)
AllSuccessfulFrom(tg, k, b, at) ==
    IF k > Len(tg) THEN Returned("True")
    ELSE IF tg[k] \notin DOMAIN b THEN Raised("KeyError")
    ELSE LET p == passed(at[b[tg[k]]])
         IN  IF p.kind = "raised" THEN p
             ELSE IF p.value # "True" THEN Returned("False")
             ELSE AllSuccessfulFrom(tg, k + 1, b, at)

\* mutant of all_successful: one build that passed is enough
all_successful_Any(tg, b, at) ==
    IF \E k \in 1..Len(tg) : tg[k] \notin DOMAIN b THEN Raised("KeyError")
    ELSE IF \E k \in 1..Len(tg) : at[b[tg[k]]].success = None
    THEN Raised("BrewBuildAttemptException")
    ELSE Returned(IF tg = <<>> \/ \E k \in 1..Len(tg) : at[b[tg[k]]].success = "True"
                  THEN "True" ELSE "False")

\* BrewBuildAttempts.all_successful
all_successful(tg, b, at) == AllSuccessfulFrom(tg, 1, b, at)

\* BrewBuildAttempts.count_failed: a loop over the keys of builds; passed() of
\* the first build without a result raises, whichever it is
count_failed(b, at) ==
    IF \E t \in DOMAIN b : at[b[t]].success = None
    THEN Raised("BrewBuildAttemptException")
    ELSE ReturnedCount(Cardinality({t \in DOMAIN b : at[b[t]].success = "False"}))

\* a Brew call ends: with a value, or with an exception
Finish(method, receiver, outcome) ==
    /\ entry' = method
    /\ self' = receiver
    /\ pc' = "idle"
    /\ wait_i' = 0
    /\ IF outcome.kind = "raised"
       THEN raised' = outcome.error /\ ret' = NoValue /\ UNCHANGED done
       ELSE /\ raised' = NoError
            /\ ret' = outcome
            /\ done' = IF method \in {"execute", "wait"}
                       THEN done \cup {<<method, receiver>>} ELSE done

\* BrewBuildAttempts.execute()
AttemptsExecute ==
    /\ pc = "idle"
    /\ Len(procs) + Len(bba_targets) <= MaxProcs
    /\ LET st == ExecuteFrom(bba_targets, 1,
                             [builds |-> builds, attempts |-> attempts, procs |-> procs])
       IN  /\ builds' = st.builds
           /\ attempts' = st.attempts
           /\ procs' = st.procs
    /\ Finish("execute", TheSet, Returned(None))
    /\ UNCHANGED <<bba_targets, dispatch>>

\* BrewBuildAttempts.wait() is called: the loop starts
AttemptsWait ==
    /\ pc = "idle"
    /\ pc' = "wait"
    /\ wait_i' = 1
    /\ entry' = "wait"
    /\ self' = TheSet
    /\ ret' = NoValue
    /\ raised' = NoError
    /\ UNCHANGED <<bba_targets, builds, attempts, procs, done, dispatch>>

\* mutant of AttemptsWaitLoop: the result and the log file are kept in one
\* place for all the attempts
AttemptsWaitLoop_SharedResult ==
    /\ pc = "wait"
    /\ IF wait_i > Len(bba_targets)
       THEN /\ Finish("wait", TheSet, Returned(None))
            /\ UNCHANGED attempts
       ELSE IF bba_targets[wait_i] \notin DOMAIN builds
       THEN /\ Finish("wait", TheSet, Raised("KeyError"))
            /\ UNCHANGED attempts
       ELSE LET a == builds[bba_targets[wait_i]]
            IN  /\ procs[attempts[a].execution].state = "exited"
                /\ attempts' = [b \in DOMAIN attempts |->
                                   wait(attempts[b], procs[attempts[a].execution])]
                /\ wait_i' = wait_i + 1
                /\ UNCHANGED <<entry, self, pc, ret, raised, done>>
    /\ UNCHANGED <<bba_targets, builds, procs, dispatch>>

\* BrewBuildAttempts.wait(), one turn of the loop: self.builds[target].wait()
\* returns once the process of the build has exited; the call returns after
\* the last target
AttemptsWaitLoop ==
    /\ pc = "wait"
    /\ IF wait_i > Len(bba_targets)
       THEN /\ Finish("wait", TheSet, Returned(None))
            /\ UNCHANGED attempts
       ELSE IF bba_targets[wait_i] \notin DOMAIN builds
       THEN /\ Finish("wait", TheSet, Raised("KeyError"))
            /\ UNCHANGED attempts
       ELSE LET a == builds[bba_targets[wait_i]]
            IN  /\ procs[attempts[a].execution].state = "exited"
                /\ attempts' = [attempts EXCEPT ![a] = wait(@, procs[attempts[a].execution])]
                /\ wait_i' = wait_i + 1
                /\ UNCHANGED <<entry, self, pc, ret, raised, done>>
    /\ UNCHANGED <<bba_targets, builds, procs, dispatch>>

\* BrewBuildAttempts.all_successful()
AllSuccessful ==
    /\ pc = "idle"
    /\ Finish("all_successful", TheSet, all_successful(bba_targets, builds, attempts))
    /\ UNCHANGED <<bba_targets, builds, attempts, procs, dispatch>>

\* BrewBuildAttempts.count_failed()
CountFailed ==
    /\ pc = "idle"
    /\ Finish("count_failed", TheSet, count_failed(builds, attempts))
    /\ UNCHANGED <<bba_targets, builds, attempts, procs, dispatch>>

\* an rhpkg process exits, with any status
ProcessExit ==
    \E p \in 1..Len(procs), status \in ExitStatuses :
        /\ procs[p].state = "running"
        /\ procs' = [procs EXCEPT ![p] = [@ EXCEPT !.state = "exited", !.returncode = status]]
        /\ UNCHANGED <<entry, pc, ret, raised, bba_targets, builds, attempts, wait_i, self,
                       done, dispatch>>

\* BrewBuildAttempt.execute() of the attempt a
AttemptExecute(a) ==
    /\ pc = "idle"
    /\ Len(procs) < MaxProcs
    /\ procs' = Append(procs, Popen(Command(attempts[a].target)))
    /\ attempts' = [attempts EXCEPT ![a] = execute(@, Len(procs) + 1)]
    /\ Finish("execute", a, Returned(None))
    /\ UNCHANGED <<bba_targets, builds, dispatch>>

\* BrewBuildAttempt.wait() of the attempt a: self._execution.wait() fails on
\* None, and returns once the process has exited
AttemptWait(a) ==
    /\ pc = "idle"
    /\ IF attempts[a].execution = 0
       THEN /\ Finish("wait", a, Raised("AttributeError"))
            /\ UNCHANGED attempts
       ELSE /\ procs[attempts[a].execution].state = "exited"
            /\ attempts' = [attempts EXCEPT ![a] = wait(@, procs[attempts[a].execution])]
            /\ Finish("wait", a, Returned(None))
    /\ UNCHANGED <<bba_targets, builds, procs, dispatch>>

\* BrewBuildAttempt.passed() of the attempt a
Passed(a) ==
    /\ pc = "idle"
    /\ Finish("passed", a, passed(attempts[a]))
    /\ UNCHANGED <<bba_targets, builds, attempts, procs, dispatch>>

\* BrewBuildAttempt.short_result of the attempt a
ShortResult(a) ==
    /\ pc = "idle"
    /\ Finish("short_result", a, short_result(attempts[a]))
    /\ UNCHANGED <<bba_targets, builds, attempts, procs, dispatch>>

\* no dispatch is at work
NoDispatch ==
    /\ name = <<>>
    /\ parts = NoParts
    /\ config_file = NoConfigFile
    /\ targets = <<>>
    /\ jobs = {}
    /\ calls = <<>>
    /\ description = NoDescription
    /\ dispatches = NoDispatches

-----------------------------------------------------------------------------
(* The build attempts of a worker job: BrewBuildAttempts(targets, logdir)   *)
(* on any sequence of targets, its methods and those of its builds called   *)
(* in any order                                                             *)

InitBrew ==
    /\ NoDispatch
    /\ bba_targets \in SeqsUpTo(BrewTargets, MaxTargets)
    /\ builds = NoBuilds
    /\ attempts = <<>>
    /\ procs = <<>>
    /\ wait_i = 0
    /\ self = TheSet
    /\ done = {}
    /\ entry = "__init__"
    /\ pc = "idle"
    /\ ret = NoValue
    /\ raised = NoError

\* self.builds[target].wait() of one of the builds, called by the driver
BuildWait == \E t \in DOMAIN builds : AttemptWait(builds[t])

\* self.builds[target].passed() of one of the builds
BuildPassed == \E t \in DOMAIN builds : Passed(builds[t])

\* self.builds[target].short_result of one of the builds
BuildShortResult == \E t \in DOMAIN builds : ShortResult(builds[t])

NextBrew ==
    \/ AttemptsExecute
    \/ AttemptsWait
    \/ AttemptsWaitLoop
    \/ AllSuccessful
    \/ CountFailed
    \/ BuildWait
    \/ BuildPassed
    \/ BuildShortResult
    \/ ProcessExit

SpecBrew == InitBrew /\ [][NextBrew]_vars

\* every rhpkg process exits in the end, and a wait() that can go on does
SpecBrewFair == SpecBrew /\ WF_vars(ProcessExit) /\ WF_vars(AttemptsWaitLoop)

-----------------------------------------------------------------------------
(* One build attempt: BrewBuildAttempt(target, logdir), its methods called  *)
(* in any order                                                             *)

InitAttempt ==
    /\ NoDispatch
    /\ bba_targets = <<>>
    /\ builds = NoBuilds
    /\ \E t \in BrewTargets : attempts = <<BrewBuildAttempt(t)>>
    /\ procs = <<>>
    /\ wait_i = 0
    /\ self = 1
    /\ done = {}
    /\ entry = "__init__"
    /\ pc = "idle"
    /\ ret = NoValue
    /\ raised = NoError

BbaExecute == AttemptExecute(1)

BbaWait == AttemptWait(1)

BbaPassed == Passed(1)

BbaShortResult == ShortResult(1)

NextAttempt ==
    \/ BbaExecute
    \/ BbaWait
    \/ BbaPassed
    \/ BbaShortResult
    \/ ProcessExit

SpecAttempt == InitAttempt /\ [][NextAttempt]_vars

-----------------------------------------------------------------------------
(* Two consider_build calls for one component and one branch, side by side  *)
(* on one Jenkins instance: two builds of the dispatcher job, each with its *)
(* own CommitCI object.  The Jenkins instance answers every call: a call    *)
(* fails only when the jobs that exist make it fail.                        *)

\* a consider_build call that has not begun
NewDispatch ==
    [pc |-> "consider_build", targets |-> <<>>, calls |-> <<>>,
     description |-> NoDescription, raised |-> NoError]

TwoDispatches == <<NewDispatch, NewDispatch>>

\* all that a step of one of the two calls leaves alone, but for jobs
BesideDispatches ==
    <<brew, entry, name, parts, config_file, pc, targets, calls, description, ret, raised>>

\* the call d after the scheduler call op: it goes on to next, or the call
\* raises PlatformJenkinsException
CliOf(d, op, arg, ok, next) ==
    [d EXCEPT !.calls = Append(@, Call(op, worker, arg,
                                       IF ok THEN None ELSE "PlatformJenkinsException")),
              !.pc = IF ok THEN next ELSE "raised",
              !.raised = IF ok THEN @ ELSE "PlatformJenkinsException"]

\* consider_build, lines 238-249, with _run_on_staging (lines 182-195) and
\* _run_by_config (lines 217-219) up to their call of _run_on_targets
ConsiderBuildOf(d) ==
    /\ dispatches[d].pc = "consider_build"
    /\ dispatches' = [dispatches EXCEPT ![d] =
          IF is_staging(name)
          THEN [@ EXCEPT !.pc = "job_exists",
                         !.targets = StagingTargets(config_file, staging_target(name).value)]
          ELSE IF config_file.present
          THEN [@ EXCEPT !.pc = "job_exists", !.targets = config_file.targets]
          ELSE [@ EXCEPT !.pc = "describe"]]
    /\ UNCHANGED <<jobs, BesideDispatches>>

\* _enable_job, line 66: jenkins.job_exists(worker)
JobExistsOf(d) ==
    /\ dispatches[d].pc = "job_exists"
    /\ dispatches' = [dispatches EXCEPT ![d] =
          [@ EXCEPT !.calls = Append(@, Call("job_exists", worker, <<>>,
                                             IF worker \in jobs THEN "True" ELSE "False")),
                    !.pc = IF worker \in jobs THEN "update_job" ELSE "create_job"]]
    /\ UNCHANGED <<jobs, BesideDispatches>>

\* _enable_job, line 70: jenkins.create_job(worker) fails when the job exists
CreateJobOf(d) ==
    /\ dispatches[d].pc = "create_job"
    /\ dispatches' = [dispatches EXCEPT ![d] =
          CliOf(@, "create_job", <<>>, worker \notin jobs, "trigger_job")]
    /\ jobs' = jobs \cup {worker}
    /\ UNCHANGED BesideDispatches

\* _enable_job, line 67: jenkins.update_job(worker) fails when the job does not exist
UpdateJobOf(d) ==
    /\ dispatches[d].pc = "update_job"
    /\ dispatches' = [dispatches EXCEPT ![d] =
          CliOf(@, "update_job", <<>>, worker \in jobs, "enable_job")]
    /\ UNCHANGED <<jobs, BesideDispatches>>

\* _enable_job, line 68: jenkins.enable_job(worker)
EnableJobOf(d) ==
    /\ dispatches[d].pc = "enable_job"
    /\ dispatches' = [dispatches EXCEPT ![d] =
          CliOf(@, "enable_job", <<>>, worker \in jobs, "trigger_job")]
    /\ UNCHANGED <<jobs, BesideDispatches>>

\* _run_on_targets, line 156: jenkins.trigger_job(worker, parameters=...)
TriggerJobOf(d) ==
    /\ dispatches[d].pc = "trigger_job"
    /\ dispatches' = [dispatches EXCEPT ![d] =
          CliOf(@, "trigger_job", Parameters(@.targets), worker \in jobs, "describe")]
    /\ UNCHANGED <<jobs, BesideDispatches>>

\* consider_build, lines 251-252: the description of the dispatcher's own build
DescribeOf(d) ==
    /\ dispatches[d].pc = "describe"
    /\ dispatches' = [dispatches EXCEPT ![d] =
          [@ EXCEPT !.description = create_description(name, dispatches[d].targets,
                                                             Component),
                    !.pc = "returned"]]
    /\ UNCHANGED <<jobs, BesideDispatches>>

InitRace ==
    /\ entry = "consider_build"
    /\ name \in DispatchBranches
    /\ parts = NoParts
    /\ config_file \in ConfigFiles
    /\ pc = "idle"
    /\ targets = <<>>
    /\ jobs \in {{}, {worker}}
    /\ calls = <<>>
    /\ description = NoDescription
    /\ dispatches = TwoDispatches
    /\ ret = NoValue
    /\ raised = NoError
    /\ NoBrew

\* a step of either of the two calls
RaceConsiderBuild == \E d \in DOMAIN dispatches : ConsiderBuildOf(d)

RaceJobExists == \E d \in DOMAIN dispatches : JobExistsOf(d)

RaceCreateJob == \E d \in DOMAIN dispatches : CreateJobOf(d)

RaceUpdateJob == \E d \in DOMAIN dispatches : UpdateJobOf(d)

RaceEnableJob == \E d \in DOMAIN dispatches : EnableJobOf(d)

RaceTriggerJob == \E d \in DOMAIN dispatches : TriggerJobOf(d)

RaceDescribe == \E d \in DOMAIN dispatches : DescribeOf(d)

NextRace ==
    \/ RaceConsiderBuild
    \/ RaceJobExists
    \/ RaceCreateJob
    \/ RaceUpdateJob
    \/ RaceEnableJob
    \/ RaceTriggerJob
    \/ RaceDescribe

SpecRace == InitRace /\ [][NextRace]_vars
-----------------------------------------------------------------------------
(* Claims about the dispatcher (Spec) *)

\* the targets have been resolved: the call is past _run_on_staging /
\* _run_by_config / the else branch of consider_build
Resolved ==
    \/ pc \in {"job_exists", "create_job", "update_job", "enable_job", "trigger_job",
               "describe", "returned"}
    \/ pc = "raised" /\ raised = "PlatformJenkinsException"

JobOps == {"job_exists", "create_job", "update_job", "enable_job", "trigger_job"}

Triggers == SelectSeq(calls, LAMBDA c : c.op = "trigger_job")

ConfigTargetsOf(cfg) == IF cfg.present THEN cfg.targets ELSE <<>>

NoDuplicates(seq) == \A i, j \in 1..Len(seq) : seq[i] = seq[j] => i = j

RHEL71_STAGING == RHEL_ \o N71 \o DASH_STAGING
RHEL71_CANDIDATE == RHEL_ \o N71 \o DASH_CANDIDATE

\* C1: on a staging or private staging branch, whatever the config file holds
\* (absent, empty, any targets), the resolved target list, which is the one
\* joined into the worker job's BREW_TARGETS, contains the branch's own staging
\* target; rhel-7.1-staging without a config file resolves to exactly
\* [rhel-7.1-candidate].
C1_StagingTargetAlwaysBuilt ==
    (is_staging(name) /\ Resolved) =>
        /\ type(name) \in {"staging", "private staging"}
        /\ Contains(targets, staging_target(name).value)
        /\ \A k \in 1..Len(Triggers) : Triggers[k].arg.BREW_TARGETS = Join(targets, Space)
        /\ (name = RHEL71_STAGING /\ ~config_file.present) => targets = <<RHEL71_CANDIDATE>>

C1_Witness ==
    /\ entry = "consider_build"
    /\ type(name) = "private staging"
    /\ config_file.present
    /\ ~Contains(config_file.targets, staging_target(name).value)
    /\ Len(Triggers) = 1
    /\ pc = "returned"

\* C2: on a staging or private staging branch the resolved list is the config's
\* targets in config order, then the staging target at the end if and only if
\* the config does not list it: on rhel-7.1-staging, [x86_64-extra,
\* rhel-7.1-candidate] stays as it is and [x86_64-extra] becomes [x86_64-extra,
\* rhel-7.1-candidate].
C2_ConfigOrderThenStagingTarget ==
    (is_staging(name) /\ Resolved) =>
        LET cfg == ConfigTargetsOf(config_file)
            st == staging_target(name).value
        IN  /\ SubSeq(targets, 1, Len(cfg)) = cfg
            /\ Len(targets) = Len(cfg) + (IF Contains(cfg, st) THEN 0 ELSE 1)
            /\ Len(targets) > Len(cfg) => targets[Len(targets)] = st
            /\ (name = RHEL71_STAGING /\ config_file = ConfigFile(<<X86_64_EXTRA, RHEL71_CANDIDATE>>))
                   => targets = <<X86_64_EXTRA, RHEL71_CANDIDATE>>
            /\ (name = RHEL71_STAGING /\ config_file = ConfigFile(<<X86_64_EXTRA>>))
                   => targets = <<X86_64_EXTRA, RHEL71_CANDIDATE>>

C2_Witness ==
    /\ name = RHEL71_STAGING
    /\ config_file = ConfigFile(<<X86_64_EXTRA>>)
    /\ targets = <<X86_64_EXTRA, RHEL71_CANDIDATE>>
    /\ Len(Triggers) = 1

\* C3 as claimed: no build target appears more than once in the resolved list,
\* for every branch and every config target list.
C3_NoDuplicateTargets == Resolved => NoDuplicates(targets)

\* C3 as amended: resolving adds no duplicate and removes none.  Every target
\* is in the resolved list as often as the config file lists it, but for the
\* staging target of a staging branch that the config file does not list, which
\* is there once; so the resolved list is free of duplicates exactly when the
\* config's list is.
C3_NoDuplicateAdded ==
    Resolved =>
        LET cfg == ConfigTargetsOf(config_file)
            own == IF is_staging(name) \/ entry = "_run_on_staging"
                   THEN {staging_target(name).value} ELSE {}
        IN  /\ \A t \in ConfigTargets \cup own :
                 Count(targets, t) = IF t \in own /\ Count(cfg, t) = 0 THEN 1 ELSE Count(cfg, t)
            /\ NoDuplicates(targets) <=> NoDuplicates(cfg)

C3_Witness ==
    /\ is_staging(name)
    /\ config_file.present
    /\ Contains(config_file.targets, staging_target(name).value)
    /\ Len(config_file.targets) = 2
    /\ NoDuplicates(targets)
    /\ Len(Triggers) = 1
\* C4: on a branch that is neither staging nor private staging (type standard
\* or private) with a config file, consider_build resolves exactly the config's
\* target list, same elements in the same order, nothing added, and that is
\* what the worker job is triggered with; extras-rhel-7.2 with [x86_64-extra]
\* resolves to [x86_64-extra].
C4_ConfigTargetsUnmodified ==
    (entry = "consider_build" /\ ~is_staging(name) /\ config_file.present /\ Resolved) =>
        /\ type(name) \in {"standard", "private"}
        /\ targets = config_file.targets
        /\ \A k \in 1..Len(Triggers) :
             Triggers[k].arg.BREW_TARGETS = Join(config_file.targets, Space)
        /\ (name = EXTRAS_ \o RHEL_ \o N72 /\ config_file.targets = <<X86_64_EXTRA>>)
               => targets = <<X86_64_EXTRA>>

C4_Witness ==
    /\ entry = "consider_build"
    /\ type(name) = "standard"
    /\ config_file.present
    /\ Len(config_file.targets) = 2
    /\ targets = config_file.targets
    /\ Len(Triggers) = 1
    /\ pc = "returned"

\* the dispatch of C5: consider_build on a branch that is neither staging nor
\* private staging, without a config file
NothingToBuild == entry = "consider_build" /\ ~is_staging(name) /\ ~config_file.present

\* C5 as claimed: such a dispatch resolves an empty target list, raises no
\* error and makes no job call at all (job_exists, create_job, update_job,
\* enable_job, trigger_job).
C5_SilentNoOp ==
    NothingToBuild =>
        /\ targets = <<>>
        /\ raised = NoError
        /\ \A k \in 1..Len(calls) : calls[k].op \notin JobOps

\* C5 as amended: such a dispatch resolves an empty target list, makes no job
\* call at all and its description reads "No brew build was issued"; the only
\* error that can leave it is the PlatformJenkinsException of
\* set_build_description, when the CLI call that sets the description of the
\* dispatcher's own build fails.
C5_NoJobCall ==
    NothingToBuild =>
        /\ targets = <<>>
        /\ \A k \in 1..Len(calls) : calls[k].op \notin JobOps
        /\ jobs \in {{}, {worker}}
        /\ pc \in {"returned", "raised"} => description.line = "No brew build was issued"
        /\ raised # NoError =>
              /\ raised = "PlatformJenkinsException"
              /\ Len(calls) = 1
              /\ calls[1].op = "set_build_description"

C5_Witness ==
    /\ NothingToBuild
    /\ type(name) = "private"
    /\ pc = "returned"
    /\ calls = <<>>

\* C6: when the branch is staging or private staging, or a config file is
\* present, a consider_build that gets to trigger_job triggers the worker job
\* ci-<component>-commit-<branch> once and never again, with the single
\* parameter BREW_TARGETS, the resolved targets joined in order by single
\* spaces.  (A CLI call that fails before it raises out of the dispatch.)
C6_WorkerTriggeredOnce ==
    (entry = "consider_build" /\ (is_staging(name) \/ config_file.present)) =>
        /\ Len(Triggers) <= 1
        /\ pc \in {"describe", "returned"} => Len(Triggers) = 1
        /\ (pc = "raised" /\ Len(Triggers) = 0) => calls[Len(calls)].op \in JobOps
        /\ \A k \in 1..Len(Triggers) :
             /\ Triggers[k].job = <<"c", "i", "-">> \o Component \o
                                  <<"-", "c", "o", "m", "m", "i", "t", "-">> \o name
             /\ DOMAIN Triggers[k].arg = {"BREW_TARGETS"}
             /\ Triggers[k].arg.BREW_TARGETS = Join(targets, Space)
             /\ (name = RHEL71_STAGING /\ config_file = ConfigFile(<<X86_64_EXTRA>>)) =>
                   Triggers[k].arg.BREW_TARGETS = X86_64_EXTRA \o <<" ">> \o RHEL71_CANDIDATE

C6_Witness ==
    /\ entry = "consider_build"
    /\ name = RHEL71_STAGING
    /\ config_file = ConfigFile(<<X86_64_EXTRA>>)
    /\ Len(Triggers) = 1
    /\ pc = "returned"
-----------------------------------------------------------------------------
(* Claims about the classifier (SpecBranch) *)

\* the call has ended, by a return or by an exception
Ended == pc \in {"returned", "raised"}

\* the name is exactly the base it was put together from
Bare == parts.private = <<>> /\ parts.x = <<>> /\ parts.suffix = <<>>

\* the candidate target of a staging base f v -staging, written out: the family
\* and the version as they are, but for the package  staging  of a family
CandidateOf(base) ==
    LET fv == CHOOSE fv \in Families \X Versions : fv[1] \o fv[2] \o DASH_STAGING = base
    IN  (IF fv[1] = RHSCL_STAGING_ THEN RHSCL_RH_ \o CANDIDATE \o Dash ELSE fv[1])
        \o fv[2] \o DASH_CANDIDATE

\* C7: a name that matches the standard pattern (an optional extras- or
\* rhscl-<v>-rh-<pkg>- prefix, rhel-<major>[.<minor>], then the end of the
\* name) and not the staging pattern has type standard, and its staging_target
\* is the matched substring followed by -candidate (extras-rhel-7.3 gives
\* extras-rhel-7.3-candidate).
C7_StandardBranch ==
    /\ (Bare /\ parts.base \in StandardBases) => is_standard(name) /\ ~is_staging(name)
    /\ (is_standard(name) /\ ~is_staging(name) /\ Ended) =>
          /\ name \in {STANDARD_BRANCH_REGEXP(name).st_branch,
                      STANDARD_BRANCH_REGEXP(name).st_branch \o <<"\n">>}
          /\ entry = "type" => ret = Returned("standard")
          /\ entry = "is_staging" => ret = Returned(FALSE)
          /\ entry = "staging_target" =>
                ret = Returned(STANDARD_BRANCH_REGEXP(name).st_branch \o DASH_CANDIDATE)
          /\ (entry = "staging_target" /\ name = EXTRAS_ \o RHEL_ \o N73) =>
                ret.value = EXTRAS_ \o RHEL_ \o N73 \o <<"-">> \o CANDIDATE

C7_Witness ==
    /\ Bare
    /\ parts.base = EXTRAS_ \o RHEL_ \o N73
    /\ entry = "staging_target"
    /\ ret = Returned(EXTRAS_ \o RHEL_ \o N73 \o DASH_CANDIDATE)

\* C8: a name that matches the staging pattern and has no private- prefix (an
\* optional extras- or rhscl-<v>-rh-<pkg>- prefix, rhel-<major>[.<minor>],
\* -staging) has type staging, and its staging_target is the matched base with
\* staging replaced by candidate; a major-only name is substituted literally
\* (rhel-6-staging gives rhel-6-candidate).
C8_StagingBranch ==
    /\ (Bare /\ parts.base \in StagingBases) => is_staging(name)
    /\ (is_staging(name) /\ ~StartsWith(name, PRIVATE_) /\ Ended) =>
          /\ name \in {STAGING_BRANCH_REGEXP(name).st_branch,
                      STAGING_BRANCH_REGEXP(name).st_branch \o <<"\n">>}
          /\ entry = "type" => ret = Returned("staging")
          /\ entry = "is_staging" => ret = Returned(TRUE)
          /\ (entry = "staging_target" /\ Bare /\ parts.base \in StagingBases) =>
                ret = Returned(CandidateOf(parts.base))
          /\ (entry = "staging_target" /\ name = RHEL_ \o <<"6">> \o DASH_STAGING) =>
                ret.value = RHEL_ \o <<"6">> \o DASH_CANDIDATE

C8_Witness ==
    /\ Bare
    /\ parts.base = RHEL_ \o <<"6">> \o DASH_STAGING
    /\ entry = "staging_target"
    /\ ret = Returned(RHEL_ \o <<"6">> \o DASH_CANDIDATE)

\* the name is private- <x>- base suffix with a staging base
PrivateForm == parts.private = PRIVATE_ /\ parts.x # <<>> /\ parts.base \in StagingBases

\* what C9 says of an ended call
PrivateStagingResult ==
    /\ entry = "type" => ret = Returned("private staging")
    /\ entry = "is_staging" => ret = Returned(TRUE)
    /\ entry = "staging_target" => ret = Returned(CandidateOf(parts.base))

\* a staging base starts in the name after private- and before the embedded one
\* (<x> ends in the family prefix extras, or holds a staging base itself), so
\* that the name can be read as private-<x>- + staging base in two ways
EarlierBase ==
    \E j \in (Len(PRIVATE_) + 1)..(Len(PRIVATE_) + Len(parts.x)) :
        STAGING_BRANCH_REGEXP_PATTERN(name, j) # <<>>

\* C9: every name private-<x>- + staging base + optional suffix has type
\* private staging and the staging_target of the embedded staging base alone
\* (the first one the name can be read with), the same for every prefix content
\* <x> and every suffix content.
C9_PrivateStagingAnyPrefix ==
    (PrivateForm /\ ~EarlierBase /\ Ended) => PrivateStagingResult

\* <x> is made of word characters and dashes
WordPrefix == \A k \in 1..Len(parts.x) : parts.x[k] \in WordDashChars

\* C9 for the prefixes the pattern allows: when <x> is made of word characters
\* and dashes only, the name has type private staging and the staging_target
\* of the embedded staging base, the same for every such <x> and every suffix
\* content (private-x-rhel-7.3-staging-bz1 gives rhel-7.3-candidate).
C9_PrivateStagingWordPrefix ==
    (PrivateForm /\ WordPrefix /\ ~EarlierBase /\ Ended) => PrivateStagingResult

C9_Witness ==
    /\ parts = [private |-> PRIVATE_, x |-> <<"x", "-">>,
                base |-> RHEL_ \o N73 \o DASH_STAGING, suffix |-> Dash \o BZ1]
    /\ entry = "staging_target"
    /\ ret = Returned(RHEL_ \o N73 \o DASH_CANDIDATE)

\* rhel- stands nowhere in the name
NoRhel == \A j \in 1..Len(name) : ~LitAt(name, j, RHEL_)

\* C10: on a name that matches neither the staging nor the standard pattern,
\* type is private, is_staging() is false and staging_target raises
\* DistGitBranchException instead of returning a target; _run_on_staging on
\* such a branch raises the same exception and issues no Jenkins call.
C10_PrivateBranch ==
    /\ NoRhel => ~is_staging(name) /\ ~is_standard(name)
    /\ (~is_staging(name) /\ ~is_standard(name) /\ pc # entry) =>
          /\ entry = "type" => ret = Returned("private")
          /\ entry = "is_staging" => ret = Returned(FALSE)
          /\ entry = "is_standard" => ret = Returned(FALSE)
          /\ entry \in {"staging_target", "_run_on_staging"} =>
                /\ pc = "raised"
                /\ raised = "DistGitBranchException"
                /\ ret = NoValue
                /\ calls = <<>>
                /\ targets = <<>>

C10_Witness ==
    /\ parts.private = PRIVATE_
    /\ parts.x = <<"x", "-">>
    /\ parts.base = <<>>
    /\ entry = "_run_on_staging"
    /\ pc = "raised"
    /\ raised = "DistGitBranchException"

\* the four values of DistGitBranch.type
BranchTypes == {"standard", "staging", "private", "private staging"}

\* C11: exactly one branch type applies to any name: no name satisfies both
\* is_staging() and is_standard(), and type returns one of standard, staging,
\* private, private staging: a staging one exactly for the names is_staging()
\* holds of, standard exactly for those is_standard() holds of, private
\* exactly for the names neither holds of.
C11_ExactlyOneType ==
    /\ ~(is_staging(name) /\ is_standard(name))
    /\ (entry = "type" /\ Ended) =>
          /\ ret.kind = "value"
          /\ ret.value \in BranchTypes
          /\ ret.value \in {"staging", "private staging"} <=> is_staging(name)
          /\ ret.value = "standard" <=> is_standard(name)
          /\ ret.value = "private" <=> (~is_staging(name) /\ ~is_standard(name))

C11_Witness ==
    /\ entry = "type"
    /\ Bare
    /\ parts.base = RHSCL_RUBY_ \o RHEL_ \o N73 \o DASH_STAGING
    /\ ret = Returned("staging")

\* the base with its final staging, and nothing else, turned into candidate
FinalStagingToCandidate(base) ==
    SubSeq(base, 1, Len(base) - Len(STAGING)) \o CANDIDATE

\* C12: for every staging or private staging name, staging_target keeps the
\* extras- or rhscl-<v>-rh-<pkg>- prefix and the rhel-<version> part of the
\* matched base as they are, for every package name <pkg>, and differs from
\* the matched base only in its final staging, which is candidate.
C12_OnlyFinalStagingReplaced ==
    (entry = "staging_target" /\ is_staging(name) /\ Ended) =>
        /\ ret.kind = "value"
        /\ ret.value = FinalStagingToCandidate(STAGING_BRANCH_REGEXP(name).st_branch)

\* the name is staging-<base>, or private-staging-<base> with an optional
\* -<suffix>, for a standard base
StagingFirst ==
    /\ parts.x = STAGING \o Dash
    /\ parts.base \in StandardBases
    /\ parts.suffix \in (IF parts.private = <<>> THEN {<<>>} ELSE {<<>>, Dash \o BZ1})

\* C13: a name staging-<base> (base = rhel-<n>, extras-rhel-<n> or
\* rhscl-<v>-rh-<pkg>-rhel-<n>), alone or after a private- prefix and before an
\* optional -<suffix>, is a staging branch: is_staging() is true,
\* staging_target is staging-<base>-candidate, and type is staging without the
\* private prefix and private staging with it.
C13_StagingFirstIsStaging ==
    (StagingFirst /\ Ended) =>
        /\ entry = "is_staging" => ret = Returned(TRUE)
        /\ entry = "staging_target" =>
              ret = Returned(STAGING \o Dash \o parts.base \o DASH_CANDIDATE)
        /\ entry = "type" =>
              ret = Returned(IF parts.private = <<>> THEN "staging" ELSE "private staging")

-----------------------------------------------------------------------------
(* Claims about the build attempts of a worker job (SpecBrew) *)

\* execute() of the set has returned, once: every process is one of its loop
ExecutedOnce == <<"execute", TheSet>> \in done /\ Len(procs) = Len(bba_targets)

\* the build request p is the one of a build held in builds
Tracked(p) == \E t \in DOMAIN builds : attempts[builds[t]].execution = p

\* C14: after BrewBuildAttempts.execute() on any target collection, one build
\* request has been issued per target and builds holds one attempt per
\* distinct target, with no duplicate targets: as many build requests have
\* been issued as builds has entries, and every issued request is the one
\* tracked in builds.
C14_OneRequestPerTarget ==
    ExecutedOnce =>
        /\ DOMAIN builds = {bba_targets[k] : k \in 1..Len(bba_targets)}
        /\ Len(procs) = Cardinality(DOMAIN builds)
        /\ \A p \in 1..Len(procs) : Tracked(p)

\* the attempt a has reached a terminal state: its build has exited and its
\* result is set
Terminal(a) ==
    /\ attempts[a].success # None
    /\ procs[attempts[a].execution].state = "exited"

\* C15, the safety half: BrewBuildAttempts.wait() returns only once every
\* issued attempt has reached a terminal state (passed or failed), whatever
\* order the builds finish in.
C15_WaitReturnsWhenAllTerminal ==
    (ExecutedOnce /\ entry = "wait" /\ self = TheSet /\ pc = "idle" /\ raised = NoError) =>
        \A a \in 1..Len(attempts) : Terminal(a)

\* C15, the liveness half: if every build exits in the end, a wait() that was
\* called returns (or raises) in the end.
C15_WaitEventuallyReturns == (pc = "wait") ~> (pc = "idle")

\* wait() has completed for every target: each has a build with a result
WaitCompleted ==
    \A k \in 1..Len(bba_targets) :
        /\ bba_targets[k] \in DOMAIN builds
        /\ attempts[builds[bba_targets[k]]].success # None

\* C16: all_successful() called at any point before wait() has completed for
\* every target, before execute() and while a build is still running
\* included, raises BrewBuildAttemptException and returns neither true nor
\* false.
C16_AllSuccessfulNeedsWait ==
    (entry = "all_successful" /\ ~WaitCompleted) =>
        /\ raised = "BrewBuildAttemptException"
        /\ ret = NoValue

\* C17: count_failed() called at any point before wait() has completed for
\* every target, before execute() included, raises BrewBuildAttemptException
\* instead of returning a count.
C17_CountFailedNeedsWait ==
    (entry = "count_failed" /\ ~WaitCompleted) =>
        /\ raised = "BrewBuildAttemptException"
        /\ ret = NoValue

\* exit status of the build that builds holds for the target t
ExitOf(t) == procs[attempts[builds[t]].execution].returncode

\* C18: after execute() followed by wait(), all_successful() is true exactly
\* when every build of the set exited with 0 (every attempt passed) and
\* count_failed() is the number of builds that did not (the attempts that
\* failed), so all_successful() holds exactly when count_failed() is 0; with
\* two targets, one build exiting non-zero and one with 0, all_successful()
\* is false and count_failed() is 1.
C18_AggregateResults ==
    (<<"execute", TheSet>> \in done /\ WaitCompleted /\ pc = "idle") =>
        /\ all_successful(bba_targets, builds, attempts)
               = Returned(IF \A t \in DOMAIN builds : ExitOf(t) = 0 THEN "True" ELSE "False")
        /\ count_failed(builds, attempts)
               = ReturnedCount(Cardinality({t \in DOMAIN builds : ExitOf(t) # 0}))
        /\ all_successful(bba_targets, builds, attempts) = Returned("True")
               <=> count_failed(builds, attempts) = ReturnedCount(0)
        /\ entry = "all_successful" => ret = all_successful(bba_targets, builds, attempts)
        /\ entry = "count_failed" => ret = count_failed(builds, attempts)
        /\ (/\ bba_targets = <<"target-1-test", "target-2-test">>
            /\ ExitOf("target-1-test") # 0
            /\ ExitOf("target-2-test") = 0) =>
               /\ entry = "all_successful" => ret = Returned("False")
               /\ entry = "count_failed" => ret = ReturnedCount(1)

C18_Witness ==
    /\ bba_targets = <<"target-1-test", "target-2-test">>
    /\ <<"wait", TheSet>> \in done
    /\ ExitOf("target-1-test") = 1
    /\ ExitOf("target-2-test") = 0
    /\ entry = "count_failed"
    /\ ret = ReturnedCount(1)

\* C19: the result of an attempt after wait() is passed exactly when its build
\* exited with status 0, and failed for every other status; a failed attempt
\* is recorded as failed without an exception, from wait() or from passed();
\* and no second build request is issued for an attempt: after any calls of
\* wait(), passed(), short_result, all_successful() and count_failed() each
\* attempt has the one request its execute() issued.
C19_ResultIsExitStatus ==
    /\ \A a \in 1..Len(attempts) :
          attempts[a].success # None =>
              /\ procs[attempts[a].execution].state = "exited"
              /\ attempts[a].success = "True" <=> procs[attempts[a].execution].returncode = 0
              /\ attempts[a].success = "False" <=> procs[attempts[a].execution].returncode # 0
    /\ (entry = "wait" /\ pc = "idle" /\ <<"execute", TheSet>> \in done) => raised = NoError
    /\ (entry = "passed" /\ attempts[self].success = "False") => ret = Returned("False")
    /\ Len(procs) = Len(attempts)
    /\ \A a \in 1..Len(attempts) : attempts[a].execution = a

C19_Witness ==
    /\ entry = "passed"
    /\ ret = Returned("False")
    /\ procs[attempts[self].execution].returncode = -9
    /\ <<"wait", TheSet>> \in done

-----------------------------------------------------------------------------
(* Claims about one build attempt (SpecAttempt) *)

\* C20: passed() and short_result of a BrewBuildAttempt raise
\* BrewBuildAttemptException whenever no wait() call has completed on the
\* attempt, before execute() and between execute() and wait(), and return a
\* value only after a wait().
C20_PassedNeedsWait ==
    (entry \in {"passed", "short_result"} /\ pc = "idle") =>
        /\ <<"wait", self>> \notin done =>
              /\ raised = "BrewBuildAttemptException"
              /\ ret = NoValue
        /\ ret # NoValue =>
              /\ <<"wait", self>> \in done
              /\ entry = "passed" => ret.value \in {"True", "False"}
              /\ entry = "short_result" => ret.value \in {"PASS", "FAIL"}

C20_Witness ==
    /\ entry = "short_result"
    /\ <<"execute", 1>> \in done
    /\ <<"wait", 1>> \notin done
    /\ procs[1].state = "exited"
    /\ raised = "BrewBuildAttemptException"

-----------------------------------------------------------------------------
(* Claims about the calls of the job scheduler (Spec) *)

Ops(seq) == [k \in 1..Len(seq) |-> seq[k].op]

\* the calls _enable_job has made so far
EnableOps ==
    Ops(SelectSeq(calls, LAMBDA c : c.op \in {"job_exists", "create_job", "update_job",
                                              "enable_job"}))

\* _enable_job has returned
EnableReturned == EnableOps # <<>> /\ pc \in {"trigger_job", "describe", "returned"}

\* C21: _enable_job (called by CommitCI.enable and by _run_on_targets) first
\* asks job_exists for its job.  When the answer is False it calls create_job
\* and neither update_job nor enable_job; when the answer is True it calls
\* update_job, then enable_job, and never create_job.  Once _enable_job has
\* returned, all these calls have been made and the job exists.
C21_EnableCreatesOrUpdates ==
    LET ops == EnableOps
    IN  /\ ops # <<>> =>
              /\ calls[1].op = "job_exists"
              /\ \A k \in 1..Len(ops) : calls[k].op = ops[k] /\ calls[k].job = job
        /\ (ops # <<>> /\ calls[1].result = "False") =>
              /\ ops \in {<<"job_exists">>, <<"job_exists", "create_job">>}
              /\ EnableReturned => ops = <<"job_exists", "create_job">>
        /\ (ops # <<>> /\ calls[1].result = "True") =>
              /\ ops \in {<<"job_exists">>, <<"job_exists", "update_job">>,
                          <<"job_exists", "update_job", "enable_job">>}
              /\ EnableReturned => ops = <<"job_exists", "update_job", "enable_job">>
        /\ EnableReturned => job \in jobs

C21_Witness ==
    /\ entry = "enable"
    /\ pc = "returned"
    /\ job = CI_ \o Component \o DASH_DISPATCHER_COMMIT
    /\ calls[1].result = "True"
    /\ EnableOps = <<"job_exists", "update_job", "enable_job">>
    /\ job \in jobs

Failed(c) == c.result = "PlatformJenkinsException"

Descriptions == SelectSeq(calls, LAMBDA c : c.op = "set_build_description")

\* C22: when a job-scheduler call of consider_build fails (create_job,
\* update_job, enable_job or trigger_job raises PlatformJenkinsException), the
\* exception leaves consider_build and the failed call is the last call of the
\* dispatch: no call is made twice, trigger_job comes only straight after a
\* create_job or an enable_job that did not fail, and after any failed job call
\* no description is built and nothing is returned.
C22_FailedCallHaltsDispatch ==
    entry = "consider_build" =>
        /\ \A k \in 1..Len(calls) :
             Failed(calls[k]) =>
                 /\ k = Len(calls)
                 /\ pc = "raised"
                 /\ raised = "PlatformJenkinsException"
                 /\ ret = NoValue
                 /\ calls[k].op \in JobOps =>
                        description = NoDescription /\ Descriptions = <<>>
                 /\ calls[k].op \in {"create_job", "update_job", "enable_job"} =>
                        Triggers = <<>>
        /\ \A k, l \in 1..Len(calls) : calls[k].op = calls[l].op => k = l
        /\ \A k \in 1..Len(calls) :
             calls[k].op = "trigger_job" =>
                 /\ k > 1
                 /\ calls[k - 1].op \in {"create_job", "enable_job"}
                 /\ ~Failed(calls[k - 1])

C22_Witness ==
    /\ entry = "consider_build"
    /\ pc = "raised"
    /\ raised = "PlatformJenkinsException"
    /\ Ops(calls) = <<"job_exists", "update_job", "enable_job", "trigger_job">>
    /\ Failed(calls[4])
    /\ description = NoDescription

\* the targets consider_build resolves for the branch and the config file
ResolvedTargets ==
    IF is_staging(name)
    THEN StagingTargets(config_file, staging_target(name).value)
    ELSE ConfigTargetsOf(config_file)

\* C23: every consider_build that returns without an error, whatever the type
\* of the branch and with or without a config file, has built one description
\* from the commit's branch and the resolved target list and handed it over;
\* no description exists before the dispatch is past its trigger_job, and
\* set_build_description is called at most once, as the last call, with that
\* description.
C23_OneDescriptionAfterTrigger ==
    entry = "consider_build" =>
        /\ pc = "returned" =>
              /\ raised = NoError
              /\ targets = ResolvedTargets
              /\ description = create_description(name, ResolvedTargets, Component)
              /\ description.branch = name /\ description.type = type(name)
        /\ pc \in {"consider_build", "_run_on_staging", "_run_by_config", "job_exists",
                   "create_job", "update_job", "enable_job", "trigger_job", "describe"} =>
              description = NoDescription /\ Descriptions = <<>>
        /\ Len(Descriptions) <= 1
        /\ \A k \in 1..Len(calls) :
             calls[k].op = "set_build_description" =>
                 /\ k = Len(calls)
                 /\ calls[k].arg = description
                 /\ description # NoDescription

C23_Witness ==
    /\ entry = "consider_build"
    /\ pc = "returned"
    /\ type(name) = "private staging"
    /\ config_file.present
    /\ Len(Triggers) = 1
    /\ Len(Descriptions) = 1
    /\ calls[Len(calls)].arg = description
    /\ description.line = "Triggered job"

\* C26: in a dispatch that triggers a worker job the calls are job_exists, then
\* create_job or update_job followed by enable_job, then trigger_job, then (if
\* at all) set_build_description, all job calls on the worker job; the call
\* right before trigger_job is a create_job or an enable_job of the worker job
\* that did not fail, and no description is built before trigger_job.
C26_CallOrder ==
    Len(Triggers) >= 1 =>
        /\ Ops(calls) \in
              { <<"job_exists", "create_job", "trigger_job">>,
                <<"job_exists", "update_job", "enable_job", "trigger_job">>,
                <<"job_exists", "create_job", "trigger_job", "set_build_description">>,
                <<"job_exists", "update_job", "enable_job", "trigger_job",
                  "set_build_description">> }
        /\ \A k \in 1..Len(calls) :
             /\ calls[k].op \in JobOps => calls[k].job = worker
             /\ calls[k].op = "trigger_job" =>
                   /\ \A i \in 1..(k - 1) : ~Failed(calls[i])
                   /\ ~Failed(calls[k]) => worker \in jobs
        /\ pc = "describe" => description = NoDescription

C26_Witness ==
    /\ entry = "consider_build"
    /\ pc = "returned"
    /\ Ops(calls) = <<"job_exists", "update_job", "enable_job", "trigger_job",
                      "set_build_description">>
    /\ \A k \in 1..Len(calls) : ~Failed(calls[k])

\* C28: the description agrees with what consider_build did: it holds the line
\* "No brew build was issued" if and only if no worker job was triggered, and
\* the "Triggered job" link if and only if one was.
C28_DescriptionAgreesWithDispatch ==
    (entry = "consider_build" /\ description # NoDescription) =>
        /\ description.line = "No brew build was issued" <=> Triggers = <<>>
        /\ description.line = "Triggered job" <=> Triggers # <<>>

-----------------------------------------------------------------------------
(* Claims about one build attempt, continued (SpecAttempt) *)

\* C24: execute() of a BrewBuildAttempt opens the attempt's log file and starts
\* the command rhpkg build --scratch --skip-nvr-check --target <target>
\* --arches x86_64 (the command brew_test.py expects), whatever the target.
C24_CommandWithArches ==
    \A a \in 1..Len(attempts) :
        attempts[a].execution # 0 =>
            /\ attempts[a].logfile \in {"open", "closed"}
            /\ procs[attempts[a].execution].argv =
                   <<"rhpkg", "build", "--scratch", "--skip-nvr-check", "--target",
                     attempts[a].target, "--arches", "x86_64">>

\* C30: in any sequence of execute() and wait() calls on one attempt, passed()
\* returns a value only when the execution issued last has been waited for
\* (its log file is closed again), the value then tells whether that execution
\* exited with 0, and while the execution issued last has not been waited for
\* (its log file is open) passed() raises BrewBuildAttemptException.
C30_PassedReflectsLatestExecution ==
    (entry = "passed" /\ self # TheSet) =>
        LET a == attempts[self]
        IN  /\ ret.kind = "value" =>
                  /\ a.execution # 0
                  /\ a.logfile = "closed"
                  /\ ret.value = IF procs[a.execution].returncode = 0 THEN "True" ELSE "False"
            /\ (a.execution # 0 /\ a.logfile = "open") =>
                  raised = "BrewBuildAttemptException"

-----------------------------------------------------------------------------
(* Claims about the build attempts of a worker job, continued (SpecBrew) *)

\* a step that completes an attempt changes that attempt's result and log
\* file and nothing else: no other attempt, no process, not the builds
OwnEntryOnly ==
    \A a \in 1..Len(attempts) :
        (Len(attempts') = Len(attempts) /\ attempts'[a] # attempts[a]) =>
            /\ \A b \in 1..Len(attempts) : b # a => attempts'[b] = attempts[b]
            /\ attempts'[a] = [attempts[a] EXCEPT !.success = attempts'[a].success,
                                                  !.logfile = attempts'[a].logfile]
            /\ attempts'[a].success =
                   IF procs[attempts[a].execution].returncode = 0 THEN "True" ELSE "False"
            /\ UNCHANGED <<procs, builds, bba_targets>>

\* the exit of a build changes that process and no attempt
ExitTouchesNoAttempt ==
    (Len(procs') = Len(procs) /\ procs' # procs) =>
        /\ UNCHANGED <<attempts, builds>>
        /\ \A p, q \in 1..Len(procs) :
             (procs'[p] # procs[p] /\ procs'[q] # procs[q]) => p = q

\* whatever the order of the exits, after wait() each build of the set has the
\* result of its own process, and the counts follow
ResultsOfOwnExits ==
    (<<"execute", TheSet>> \in done /\ WaitCompleted /\ pc = "idle") =>
        /\ \A t \in DOMAIN builds :
             passed(attempts[builds[t]])
                 = Returned(IF ExitOf(t) = 0 THEN "True" ELSE "False")
        /\ all_successful(bba_targets, builds, attempts) = Returned("True")
               <=> \A t \in DOMAIN builds : ExitOf(t) = 0
        /\ count_failed(builds, attempts).count
               = Cardinality({t \in DOMAIN builds : ExitOf(t) # 0})

\* C27: the attempts share no state that changes: the completion of an attempt
\* changes its own result and log handle and no other attempt, the exit of a
\* build changes no attempt, and so, for every order in which the builds exit,
\* the result of each attempt, all_successful() and count_failed() after
\* wait() depend on the exit statuses alone.
C27_AttemptsIndependent ==
    /\ []ResultsOfOwnExits
    /\ [][OwnEntryOnly /\ ExitTouchesNoAttempt]_vars

C27_Witness ==
    /\ bba_targets = <<"target-1-test", "target-2-test">>
    /\ entry = "wait" /\ pc = "idle" /\ self = TheSet
    /\ <<"wait", TheSet>> \in done
    /\ Len(attempts) = 2
    /\ attempts[1].success = "False" /\ attempts[1].logfile = "closed"
    /\ attempts[2].success = "True" /\ attempts[2].logfile = "closed"
    /\ ExitOf("target-1-test") = -9

-----------------------------------------------------------------------------
(* Claims about the classifier, continued (SpecBranch) *)

\* a staging base with something after it, and no private- in front
SuffixedStaging ==
    /\ ~StartsWith(name, PRIVATE_)
    /\ parts.private = <<>>
    /\ parts.base \in StagingBases
    /\ parts.suffix # <<>>

\* C25: a name that does not start with private- and has any character after
\* the -staging of its staging base is not a staging branch: is_staging() is
\* false and type is neither staging nor private staging.
C25_SuffixOnlyWhenPrivate ==
    SuffixedStaging =>
        /\ ~is_staging(name)
        /\ type(name) \notin {"staging", "private staging"}
        /\ (entry = "is_staging" /\ Ended) => ret = Returned(FALSE)
        /\ (entry = "type" /\ Ended) => ret.value \notin {"staging", "private staging"}

\* C25 for the suffixes that are not a single newline: the name is not a
\* staging branch
C25_SuffixButNewline ==
    (SuffixedStaging /\ parts.suffix # <<"\n">>) =>
        /\ ~is_staging(name)
        /\ type(name) \notin {"staging", "private staging"}

-----------------------------------------------------------------------------
(* Claims about two dispatches side by side (SpecRace) *)

\* C29: when two consider_build calls for the same component and branch run
\* side by side on one Jenkins instance, create_job is never called for a
\* worker job that exists already: no create_job of either fails, neither
\* call ends with an exception, and each one that has a target list to build
\* and has got to its description has triggered the worker job.
C29_NoCreateOfExistingJob ==
    \A d \in DOMAIN dispatches :
        /\ \A k \in 1..Len(dispatches[d].calls) :
             dispatches[d].calls[k].op = "create_job" => ~Failed(dispatches[d].calls[k])
        /\ dispatches[d].raised = NoError
        /\ (dispatches[d].pc \in {"describe", "returned"}
              /\ (is_staging(name) \/ config_file.present)) =>
               \E k \in 1..Len(dispatches[d].calls) :
                   dispatches[d].calls[k].op = "trigger_job"

====
